---------------------------- MODULE Spec2Model ----------------------------
(***************************************************************************)
(* A model of the May-I card game back end: the rules engine of            *)
(* src/MayI.js (Card, Deck, Meld, Player, MayI) and the socket handlers of *)
(* src/unnamed/part_000 that drive one room of it.                         *)
(*                                                                         *)
(* A card is its id (1..104); its rank, suit, value and order are those    *)
(* the Deck constructor gives that id.  Undef stands for the JavaScript    *)
(* value undefined, which Array.shift and Array.pop return on an empty     *)
(* array and which the code then stores like a card.  Player ids are       *)
(* opaque (here 1..NumUsers), NoPlayer stands for null.                    *)
(***************************************************************************)
EXTENDS Integers, Sequences, FiniteSets, TLC

(***************************************************************************)
(* Program constants.                                                      *)
(***************************************************************************)
NumSuits == 4
NumRanks == 13
NumDecks == 2
HandSize == 11
InitialBuys == 6
LastRound == 6
WildOrder == 2

(***************************************************************************)
(* Bounds of the model.                                                    *)
(***************************************************************************)
MaxGroupLen == 4
MaxProbeRank == 5

Undef == 0
NoPlayer == 0

NumCards == NumSuits * NumRanks * NumDecks
Cards == 1..NumCards

\* The id the Deck constructor's counter gives copy c of rank r in suit s.
CardId(s, r, c) == ((s - 1) * NumRanks + (r - 1)) * NumDecks + c

suitOf(c) == ((c - 1) \div (NumRanks * NumDecks)) + 1
rankOf(c) == (((c - 1) \div NumDecks) % NumRanks) + 1

\* order: A=1, 2..10, J=11, Q=12, K=13.
orderOf(c) == rankOf(c)

\* values: A=1, "2"=20, 3..10 face value, J=Q=K=10.
valueOf(c) ==
  LET r == rankOf(c)
  IN  IF r = 2 THEN 20 ELSE IF r > 10 THEN 10 ELSE r

\* A sequence given as a function [k \in 1..n |-> ...], as the tuple of its
\* values.
Tuple(f, n) == SubSeq(f, 1, n)

\* new Deck(suits, ranks, values, 2, false): the deck before shuffling.
FreshDeck == Tuple([i \in 1..NumCards |-> i], NumCards)

(***************************************************************************)
(* Sequence helpers standing for Array methods.                            *)
(***************************************************************************)
\* splice(i, 1): the sequence without its i-th element.
RemoveAt(s, i) == SubSeq(s, 1, i - 1) \o SubSeq(s, i + 1, Len(s))

\* splice(i, 1, x): the i-th element replaced by x.
ReplaceAt(s, i, x) == SubSeq(s, 1, i - 1) \o << x >> \o SubSeq(s, i + 1, Len(s))

\* splice(i, 0, x): x put before the i-th element.
InsertAt(s, i, x) == SubSeq(s, 1, i - 1) \o << x >> \o SubSeq(s, i, Len(s))

RECURSIVE InsertSorted(_, _)
InsertSorted(s, c) ==
  IF s = << >> THEN << c >>
  ELSE IF orderOf(s[Len(s)]) <= orderOf(c) THEN Append(s, c)
       ELSE Append(InsertSorted(SubSeq(s, 1, Len(s) - 1), c), s[Len(s)])

\* cards.sort((a, b) => a.order - b.order): a stable sort by order.
RECURSIVE SortByOrder(_)
SortByOrder(s) ==
  IF s = << >> THEN << >>
  ELSE InsertSorted(SortByOrder(SubSeq(s, 1, Len(s) - 1)), s[Len(s)])

HasUndef(s) == \E i \in 1..Len(s) : s[i] = Undef

(***************************************************************************)
(* Meld.isSet, Meld.isRun.  Both read card.order of every card, so a group *)
(* holding undefined raises a TypeError; the callers below test HasUndef   *)
(* first and treat it as the thrown error.                                 *)
(***************************************************************************)
\* The for loop of isSet from position i on, val being the order looked for
\* (0 while none is set).
RECURSIVE isSetFrom(_, _, _)
isSetFrom(cards, i, val) ==
  IF i > Len(cards) THEN TRUE
  ELSE IF orderOf(cards[i]) = WildOrder THEN isSetFrom(cards, i + 1, val)
  ELSE IF val = 0 THEN isSetFrom(cards, i + 1, orderOf(cards[i]))
  ELSE IF val # orderOf(cards[i]) THEN FALSE
  ELSE isSetFrom(cards, i + 1, val)

\* isSet without the line that skips the wild cards.
isSet_noWild(cards) ==
  \A i, j \in 1..Len(cards) : orderOf(cards[i]) = orderOf(cards[j])

\* Meld.isSet
isSet(cards) == isSetFrom(cards, 1, 0)

\* The while loop of isRun: cards is the sorted group without its wild cards
\* (it grows as wild cards are spliced in), i the next position (1-based),
\* val the order expected there, wild the number of wild cards left.
RECURSIVE isRunLoop(_, _, _, _)
isRunLoop(cards, i, val, wild) ==
  IF i > Len(cards) THEN TRUE
  ELSE IF orderOf(cards[i]) # val /\ wild = 0 THEN FALSE
  ELSE IF orderOf(cards[i]) # val
       THEN isRunLoop(InsertAt(cards, i, CardId(1, WildOrder, 1)), i + 1, val + 1, wild - 1)
       ELSE isRunLoop(cards, i + 1, val + 1, wild)

\* isRun without the loop over the suits.
isRun_anySuit(group) ==
  LET sorted == SortByOrder(group)
      cards == SelectSeq(sorted, LAMBDA c : orderOf(c) # WildOrder)
      wild == Len(sorted) - Len(cards)
  IN  IF cards = << >> THEN TRUE
      ELSE isRunLoop(cards, 2, orderOf(cards[1]) + 1, wild)

\* Meld.isRun: the group sorted, its wild cards taken out, the suits
\* compared, then the loop.
isRun(group) ==
  LET sorted == SortByOrder(group)
      cards == SelectSeq(sorted, LAMBDA c : orderOf(c) # WildOrder)
      wild == Len(sorted) - Len(cards)
  IN  IF \E i \in 2..Len(cards) : suitOf(cards[i - 1]) # suitOf(cards[i]) THEN FALSE
      ELSE IF cards = << >> THEN TRUE
      ELSE isRunLoop(cards, 2, orderOf(cards[1]) + 1, wild)

(***************************************************************************)
(* class Meld.  A meld is [id, cards, type, playerID].                     *)
(***************************************************************************)
\* Whether new Meld(id, cards, player) throws: "Invalid Meld" when the group
\* is neither a run nor a set, a TypeError when it holds undefined.
MeldThrows(cards) == HasUndef(cards) \/ (~isRun(cards) /\ ~isSet(cards))

\* The type without the test for both: run || set.
MeldType_runFirst(cards) ==
  IF isRun(cards) THEN "RUN" ELSE "SET"

\* this.type = run && set ? "EITHER" : run || set
MeldType(cards) ==
  IF isRun(cards) /\ isSet(cards) THEN "EITHER"
  ELSE IF isRun(cards) THEN "RUN" ELSE "SET"

\* new Meld(id, cards, player), for a group that does not throw.
NewMeld(id, cards, playerID) ==
  [id |-> id, cards |-> cards, type |-> MeldType(cards), playerID |-> playerID]

\* Meld.addCard: [meld, ret].
Meld_addCard(meld, card) ==
  IF MeldThrows(Append(meld.cards, card))
  THEN [meld |-> meld, ret |-> FALSE]
  ELSE [meld |-> [meld EXCEPT !.cards = SortByOrder(Append(meld.cards, card))],
        ret |-> TRUE]

\* The position of the first card of s with id c, 0 if there is none.
FirstAt(s, c) ==
  IF \E i \in 1..Len(s) : s[i] = c
  THEN CHOOSE i \in 1..Len(s) : s[i] = c /\ \A k \in 1..(i - 1) : s[k] # c
  ELSE 0

\* Meld.swap without the test meld: the cards are swapped whatever results.
Meld_swap_unchecked(meld, meldCard, playerCard) ==
  IF meldCard = Undef /\ meld.cards # << >>
  THEN [meld |-> meld, ret |-> "throw"]
  ELSE LET i == FirstAt(meld.cards, meldCard)
           swapped == IF i = 0 THEN meld.cards ELSE ReplaceAt(meld.cards, i, playerCard)
       IN  [meld |-> [meld EXCEPT !.cards = SortByOrder(swapped)], ret |-> "true"]

\* Meld.swap: [meld, ret], ret one of "true", "false", "throw".  meldCard is
\* Undef when the meld holds no wild card; meldCard.id is then read (a
\* TypeError, outside the try) as soon as the meld holds any card.
Meld_swap(meld, meldCard, playerCard) ==
  IF meldCard = Undef /\ meld.cards # << >>
  THEN [meld |-> meld, ret |-> "throw"]
  ELSE LET testMeld == << playerCard >> \o SelectSeq(meld.cards, LAMBDA c : c # meldCard)
           i == FirstAt(meld.cards, meldCard)
           swapped == IF i = 0 THEN meld.cards ELSE ReplaceAt(meld.cards, i, playerCard)
       IN  IF MeldThrows(testMeld)
           THEN [meld |-> meld, ret |-> "false"]
           ELSE [meld |-> [meld EXCEPT !.cards = SortByOrder(swapped)], ret |-> "true"]

(***************************************************************************)
(* class Player.  A player is [id, socketId, buys, points, hand]; socketId *)
(* is NoPlayer for null, else the id of the client whose socket it is.     *)
(***************************************************************************)
NewPlayer(id, socketId) ==
  [id |-> id, socketId |-> socketId, buys |-> InitialBuys, points |-> 0, hand |-> << >>]

\* The loop "for i: if (hand[i].id === card.id) hand.splice(i, 1)" from
\* position i on: after a splice the loop moves on to i + 1, so the element
\* that slid into position i is not looked at.  Reading .id of an undefined
\* entry throws: [hand, thrown], the hand as it is when the loop ends.
RECURSIVE RemoveLoop(_, _, _)
RemoveLoop(hand, i, card) ==
  IF i > Len(hand) THEN [hand |-> hand, thrown |-> FALSE]
  ELSE IF hand[i] = Undef THEN [hand |-> hand, thrown |-> TRUE]
  ELSE IF hand[i] = card THEN RemoveLoop(RemoveAt(hand, i), i + 1, card)
  ELSE RemoveLoop(hand, i + 1, card)

\* Player.removeCard
removeCard(hand, card) == RemoveLoop(hand, 1, card)

(***************************************************************************)
(* class Deck.                                                             *)
(***************************************************************************)
NumShuffles == 2

\* Deck.shuffle draws one random index per position, and every order of the
\* deck is a possible outcome.  The model takes the outcome from a small set,
\* named by a seed: 1 leaves the deck as built (suit by suit), 2 orders it
\* rank by rank (all aces, all twos, ...), any further seed rotates it.
shuffle(deck, seed) ==
  IF seed = 1 THEN deck
  ELSE IF seed = 2
  THEN Tuple([k \in 1..Len(deck) |->
                deck[CardId((((k - 1) % (NumSuits * NumDecks)) \div NumDecks) + 1,
                            ((k - 1) \div (NumSuits * NumDecks)) + 1,
                            ((k - 1) % NumDecks) + 1)]], Len(deck))
  ELSE Tuple([k \in 1..Len(deck) |-> deck[((k - 1 + 7 * seed) % Len(deck)) + 1]],
             Len(deck))

Seeds == 1..NumShuffles

\* Deck.drawCard is this.deck.shift(): undefined on an empty deck.
Shift(s) == IF s = << >> THEN Undef ELSE Head(s)
ShiftRest(s) == IF s = << >> THEN << >> ELSE Tail(s)

\* Array.pop
Pop(s) == IF s = << >> THEN Undef ELSE s[Len(s)]
PopRest(s) == IF s = << >> THEN << >> ELSE SubSeq(s, 1, Len(s) - 1)

(***************************************************************************)
(* Each round's meld requirement: the array melds of MayI.js.              *)
(***************************************************************************)
melds_table ==
  << [sets |-> 2, length |-> 3], [sets |-> 1, length |-> 4],
     [sets |-> 2, length |-> 4], [sets |-> 1, length |-> 5],
     [sets |-> 1, length |-> 6], [sets |-> 2, length |-> 5] >>

(***************************************************************************)
(* class MayI, one room of it, with the room's gameData.  The room is a    *)
(* record g:                                                               *)
(*   exists   rooms[room] is set                                           *)
(*   players  the players object, in the order of its keys (insertion      *)
(*            order: ids are not integer-like strings)                     *)
(*   hasDeck  this.deck is not null;  deck, discarded  the Deck's arrays   *)
(*   timer, buyers, numberOfPlayers  gameData[room];  buyTimeouts  the     *)
(*            number of pending setTimeout(handleCardBuyProcess) calls     *)
(*   discardTimeouts  the number of pending setTimeout(handleDiscardCard)  *)
(*            calls;  timeout  gameData[room].timeout is one of them       *)
(*   crashed  a handler threw: nothing catches it and the process ends     *)
(*   discarder  no field of the code: the player whose discard was the     *)
(*            last of the round, NoPlayer when the round has seen none     *)
(* An engine operation yields [g, ret], ret being what it returns or       *)
(* "throw".                                                                *)
(***************************************************************************)
Ret(g, v) == [g |-> g, ret |-> v]
Throw(g) == [g |-> [g EXCEPT !.crashed = TRUE], ret |-> "throw"]

\* this.players[id] is set
HasPlayer(g, id) == \E i \in 1..Len(g.players) : g.players[i].id = id
\* the position of key id among the keys of this.players
PIdx(g, id) == CHOOSE i \in 1..Len(g.players) : g.players[i].id = id
PlayerOf(g, id) == g.players[PIdx(g, id)]
\* this.turnOrder[this.turn], NoPlayer when that is undefined
TurnPlayer(g) ==
  IF g.turn + 1 <= Len(g.turnOrder) THEN g.turnOrder[g.turn + 1] ELSE NoPlayer

\* new mayi()
NewGame(n) ==
  [exists |-> TRUE, players |-> << >>, connectedPlayerCount |-> 0,
   hasDeck |-> FALSE, deck |-> << >>, discarded |-> << >>,
   round |-> 1, turn |-> 0, turnOrder |-> << >>, melds |-> << >>,
   numberOfPlayers |-> n, timer |-> FALSE, buyers |-> << >>, buyTimeouts |-> 0,
   timeout |-> FALSE, discardTimeouts |-> 0,
   crashed |-> FALSE, discarder |-> NoPlayer]

\* MayI.disconnect
disconnect(g, player) ==
  IF ~HasPlayer(g, player) THEN Throw(g)
  ELSE Ret([g EXCEPT !.players[PIdx(g, player)].socketId = NoPlayer,
                     !.connectedPlayerCount = @ - 1], "undefined")

\* MayI.reconnect.  this.players[pid] = this.players[player] puts the record
\* under key pid: in pid's place when pid is a key already, else as the last
\* key; delete this.players[player] then removes key player (the same key
\* when pid = player).
reconnect(g, player, pid, sid) ==
  IF ~HasPlayer(g, player) THEN Throw(g)
  ELSE
    LET rec == [PlayerOf(g, player) EXCEPT !.id = pid, !.socketId = sid]
        put == IF HasPlayer(g, pid)
               THEN [g.players EXCEPT ![PIdx(g, pid)] = rec]
               ELSE Append(g.players, rec)
        del == SelectSeq(put, LAMBDA p : p.id # player)
        at == FirstAt(g.turnOrder, player)
        \* indexOf is -1 when player is no entry: turnOrder[-1] = pid sets a
        \* property and leaves the entries alone
        order == IF at = 0 THEN g.turnOrder ELSE ReplaceAt(g.turnOrder, at, pid)
    IN  Ret([g EXCEPT !.players = del,
                      !.connectedPlayerCount = @ + 1,
                      !.turnOrder = order,
                      !.melds = Tuple([i \in 1..Len(g.melds) |->
                                         IF g.melds[i].playerID = player
                                         THEN [g.melds[i] EXCEPT !.playerID = pid]
                                         ELSE g.melds[i]], Len(g.melds))], "undefined")

\* MayI.incrementTurn
incrementTurn(g) ==
  LET numberOfPlayers == Len(g.players)
  IN  [g EXCEPT !.turn = IF g.turn = numberOfPlayers - 1 THEN 0 ELSE g.turn + 1]

\* MayI.addPlayer
addPlayer(g, id, socketId) ==
  IF HasPlayer(g, id) THEN g
  ELSE [g EXCEPT !.players = Append(@, NewPlayer(id, socketId)),
                 !.turnOrder = Append(@, id),
                 !.connectedPlayerCount = @ + 1]

\* The card the deal's k-th drawCard() returns.
Drawn(deck, k) == IF k <= Len(deck) THEN deck[k] ELSE Undef

\* deal without its last line: no card is moved to the discard pile.
deal_noOpening(g, seed) ==
  LET d == shuffle(FreshDeck, seed)
      n == Len(g.players)
      dealt(j) == Tuple([i \in 1..HandSize |-> Drawn(d, (i - 1) * n + j)], HandSize)
      used == HandSize * n
  IN  [g EXCEPT !.players =
                  Tuple([j \in 1..n |-> [g.players[j] EXCEPT !.hand = @ \o dealt(j)]], n),
                !.hasDeck = TRUE,
                !.discarder = NoPlayer,
                !.deck = IF used >= Len(d) THEN << >> ELSE SubSeq(d, used + 1, Len(d)),
                !.discarded = << >>]

\* MayI.deal: a new shuffled Deck; 11 times round the players in key order,
\* one card each, pushed onto the hand the player has; then one card moved
\* to the discard pile.
deal(g, seed) ==
  LET d == shuffle(FreshDeck, seed)
      n == Len(g.players)
      dealt(j) == Tuple([i \in 1..HandSize |-> Drawn(d, (i - 1) * n + j)], HandSize)
      used == HandSize * n + 1
  IN  [g EXCEPT !.players =
                  Tuple([j \in 1..n |-> [g.players[j] EXCEPT !.hand = @ \o dealt(j)]], n),
                !.hasDeck = TRUE,
                !.discarder = NoPlayer,
                !.deck = IF used >= Len(d) THEN << >> ELSE SubSeq(d, used + 1, Len(d)),
                !.discarded = << Drawn(d, used) >>]

\* MayI.draw with qty = 1
draw(g, player) ==
  IF ~HasPlayer(g, player) \/ ~g.hasDeck THEN Throw(g)
  ELSE Ret([g EXCEPT !.players[PIdx(g, player)].hand = Append(@, Shift(g.deck)),
                     !.deck = ShiftRest(@)], "undefined")

\* discard without its first line: any player may discard.
discard_anyPlayer(g, player, card) ==
  IF ~HasPlayer(g, player) THEN Throw(g)
  ELSE
    LET rm == RemoveLoop(PlayerOf(g, player).hand, 1, card)
        g1 == [g EXCEPT !.players[PIdx(g, player)].hand = rm.hand]
    IN  IF rm.thrown \/ ~g.hasDeck THEN Throw(g1)
        ELSE Ret([g1 EXCEPT !.discarded = Append(@, card),
                            !.discarder = player,
                            !.turn = IF g.turn = Len(g.players) - 1 THEN 0 ELSE g.turn + 1],
                 "true")

\* MayI.discard.  !hand.length !== 0 compares a boolean with a number and is
\* always true: the turn is always incremented.
discard(g, player, card) ==
  IF TurnPlayer(g) # player THEN Ret(g, "undefined")
  ELSE IF ~HasPlayer(g, player) THEN Throw(g)
  \* card.id of an undefined card is read as soon as the hand has an entry
  ELSE IF card = Undef /\ PlayerOf(g, player).hand # << >> THEN Throw(g)
  ELSE
    LET rm == RemoveLoop(PlayerOf(g, player).hand, 1, card)
        g1 == [g EXCEPT !.players[PIdx(g, player)].hand = rm.hand]
    IN  IF rm.thrown \/ ~g.hasDeck THEN Throw(g1)
        ELSE Ret(incrementTurn([g1 EXCEPT !.discarded = Append(@, card),
                                          !.discarder = player]), "true")

\* The sum of card.value over the cards of hand before its first undefined.
RECURSIVE SumValues(_)
SumValues(hand) ==
  IF hand = << >> \/ Head(hand) = Undef THEN 0
  ELSE valueOf(Head(hand)) + SumValues(Tail(hand))

\* The first loop of endRound from player j on; reading card.value of an
\* undefined entry throws with the points added so far.
RECURSIVE ScoreFrom(_, _)
ScoreFrom(g, j) ==
  IF j > Len(g.players) THEN g
  ELSE LET hand == g.players[j].hand
           g1 == [g EXCEPT !.players[j].points = @ + SumValues(hand)]
       IN  IF HasUndef(hand) THEN [g1 EXCEPT !.crashed = TRUE]
           ELSE ScoreFrom([g1 EXCEPT !.players[j].hand = << >>], j + 1)

\* MayI.endRound
endRound(g, seed) ==
  LET g1 == ScoreFrom(g, 1)
      g2 == [g1 EXCEPT !.round = @ + 1, !.melds = << >>]
  IN  IF g1.crashed THEN Ret(g1, "throw")
      ELSE Ret(IF g2.round <= LastRound THEN deal(g2, seed) ELSE g2, "undefined")

\* Whether seq holds x: Array.includes
Includes(seq, x) == \E i \in 1..Len(seq) : seq[i] = x

\* The loop of determineBuy from position i of buyOrder on: the player
\* returned, NoPlayer for false, -1 when reading players[player].buys throws.
RECURSIVE BuyLoop(_, _, _, _, _)
BuyLoop(g, buyOrder, allPlayers, i, length) ==
  IF i > length THEN NoPlayer
  ELSE IF ~Includes(allPlayers, buyOrder[i]) THEN BuyLoop(g, buyOrder, allPlayers, i + 1, length)
  ELSE IF ~HasPlayer(g, buyOrder[i]) THEN -1
  ELSE IF PlayerOf(g, buyOrder[i]).buys > 0 THEN buyOrder[i]
  ELSE BuyLoop(g, buyOrder, allPlayers, i + 1, length)

\* MayI.determineBuy: the buyer's id, NoPlayer for false, -1 for a throw.
determineBuy(g, allPlayers) ==
  LET t == IF g.turn > Len(g.turnOrder) THEN Len(g.turnOrder) ELSE g.turn
      buyOrder == SubSeq(g.turnOrder, t + 1, Len(g.turnOrder)) \o SubSeq(g.turnOrder, 1, t)
      length == IF Len(g.discarded) = 1 THEN Len(buyOrder) ELSE Len(buyOrder) - 1
  IN  IF ~g.hasDeck THEN -1
      ELSE BuyLoop(g, buyOrder, allPlayers, 1, length)

\* MayI.buy
buy(g, player) ==
  IF ~HasPlayer(g, player) THEN Throw(g)
  ELSE IF PlayerOf(g, player).buys = 0 THEN Ret(g, "false")
  ELSE IF ~g.hasDeck THEN Throw([g EXCEPT !.players[PIdx(g, player)].buys = @ - 1])
  ELSE draw([g EXCEPT !.players[PIdx(g, player)].buys = @ - 1,
                      !.players[PIdx(g, player)].hand = Append(@, Pop(g.discarded)),
                      !.discarded = PopRest(@)], player)

\* MayI.hasMeld
hasMeld(g, playerID) == \E i \in 1..Len(g.melds) : g.melds[i].playerID = playerID

\* All the cards of the groups of newMelds, in the order meld removes them.
RECURSIVE Flatten(_)
Flatten(groups) ==
  IF groups = << >> THEN << >> ELSE Head(groups) \o Flatten(Tail(groups))

\* The removal loops of meld: the cards of `cards` from position k on are
\* removed from hand one after the other, each by a full pass of RemoveLoop.
RECURSIVE RemoveAll(_, _, _)
RemoveAll(hand, cards, k) ==
  IF k > Len(cards) THEN [hand |-> hand, thrown |-> FALSE]
  ELSE LET rm == RemoveLoop(hand, 1, cards[k])
       IN  IF rm.thrown THEN rm ELSE RemoveAll(rm.hand, cards, k + 1)

\* The first-meld test without n.type === "RUN".
FailsRoundMeld_anyType(round, m) ==
  IF round < 1 \/ round > Len(melds_table) THEN TRUE
  ELSE LET roundMeld == melds_table[round]
       IN  \/ Len(m) # roundMeld.sets
           \/ \E i \in 1..Len(m) : Len(m[i].cards) < roundMeld.length

\* The first-meld test of meld (lines 625-635): TRUE when the melds m fail
\* the round's requirement.  melds[round - 1] is undefined outside rounds
\* 1..6 and reading .sets of it throws, which meld catches and returns false.
FailsRoundMeld(round, m) ==
  IF round < 1 \/ round > Len(melds_table) THEN TRUE
  ELSE LET roundMeld == melds_table[round]
       IN  \/ Len(m) # roundMeld.sets
           \/ \E i \in 1..Len(m) :
                Len(m[i].cards) < roundMeld.length \/ m[i].type = "RUN"

\* MayI.meld: everything runs inside try/catch, so ret is "true" or "false".
meld(g, player, newMelds) ==
  IF \E i \in 1..Len(newMelds) : MeldThrows(newMelds[i]) THEN Ret(g, "false")
  ELSE IF ~HasPlayer(g, player) THEN Ret(g, "false")
  ELSE
    LET m == Tuple([i \in 1..Len(newMelds) |->
                      NewMeld(Len(g.melds) + i - 1, newMelds[i], player)], Len(newMelds))
        sum == Len(Flatten(newMelds))
        hand == PlayerOf(g, player).hand
        rm == RemoveAll(hand, Flatten(newMelds), 1)
        g1 == [g EXCEPT !.players[PIdx(g, player)].hand = rm.hand]
    IN  IF sum = Len(hand) THEN Ret(g, "false")
        ELSE IF ~hasMeld(g, player) /\ FailsRoundMeld(g.round, m) THEN Ret(g, "false")
        ELSE IF rm.thrown THEN Ret(g1, "false")
        ELSE Ret([g1 EXCEPT !.melds = @ \o m], "true")

\* this.melds.find(m => m.id === meldID): its position, 0 for undefined.
FindMeld(g, meldID) ==
  IF \E i \in 1..Len(g.melds) : g.melds[i].id = meldID
  THEN CHOOSE i \in 1..Len(g.melds) :
         g.melds[i].id = meldID /\ \A k \in 1..(i - 1) : g.melds[k].id # meldID
  ELSE 0

\* meld.cards.find(card => card.order === 2), Undef for undefined.
FindWild(cards) ==
  IF \E i \in 1..Len(cards) : orderOf(cards[i]) = WildOrder
  THEN cards[CHOOSE i \in 1..Len(cards) :
               orderOf(cards[i]) = WildOrder
               /\ \A k \in 1..(i - 1) : orderOf(cards[k]) # WildOrder]
  ELSE Undef

\* The last loop of swapWithMeld from position i on: the first entry of the
\* hand with playerCard's id is replaced by meldCard.
RECURSIVE SwapLoop(_, _, _, _)
SwapLoop(hand, i, playerCard, meldCard) ==
  IF i > Len(hand) THEN [hand |-> hand, thrown |-> FALSE]
  ELSE IF hand[i] = Undef THEN [hand |-> hand, thrown |-> TRUE]
  ELSE IF hand[i] = playerCard
       THEN [hand |-> ReplaceAt(hand, i, meldCard), thrown |-> FALSE]
  ELSE SwapLoop(hand, i + 1, playerCard, meldCard)

\* MayI.swapWithMeld
swapWithMeld(g, player, playerCard, meldID) ==
  IF ~hasMeld(g, player) THEN Ret(g, "false")
  ELSE IF FindMeld(g, meldID) = 0 THEN Throw(g)
  ELSE
    LET k == FindMeld(g, meldID)
        meldCard == FindWild(g.melds[k].cards)
        sw == Meld_swap(g.melds[k], meldCard, playerCard)
        g1 == [g EXCEPT !.melds[k] = sw.meld]
    IN  IF sw.ret = "throw" THEN Throw(g)
        ELSE IF sw.ret = "false" THEN Ret(g, "false")
        ELSE IF ~HasPlayer(g, player) THEN Throw(g1)
        ELSE LET lp == SwapLoop(PlayerOf(g, player).hand, 1, playerCard, meldCard)
                 g2 == [g1 EXCEPT !.players[PIdx(g, player)].hand = lp.hand]
             IN  IF lp.thrown THEN Throw(g2) ELSE Ret(g2, "true")

\* MayI.addToMeld
addToMeld(g, player, card, meldID) ==
  IF FindMeld(g, meldID) = 0 THEN Throw(g)
  ELSE
    LET k == FindMeld(g, meldID)
        x == Meld_addCard(g.melds[k], card)
        g1 == [g EXCEPT !.melds[k] = x.meld]
    IN  IF ~HasPlayer(g, player) THEN Throw(g1)
        ELSE IF Len(PlayerOf(g, player).hand) > 1 /\ x.ret
        THEN LET rm == removeCard(PlayerOf(g, player).hand, card)
                 g2 == [g1 EXCEPT !.players[PIdx(g, player)].hand = rm.hand]
             IN  IF rm.thrown THEN Throw(g2) ELSE Ret(g2, "true")
        ELSE Ret(g1, "false")

(***************************************************************************)
(* The socket handlers of src/unnamed/part_000, for the one room.  Each    *)
(* takes the room g and yields [g, ret]: g after the whole handler, ret    *)
(* what the engine call at its heart returned ("throw" when the handler    *)
(* threw).  The emits to clients are left out, the reads they make of the  *)
(* room are kept where they can throw.                                     *)
(***************************************************************************)
\* gameData and pending timeouts outlive rooms[room].
NoRoom ==
  [exists |-> FALSE, players |-> << >>, connectedPlayerCount |-> 0,
   hasDeck |-> FALSE, deck |-> << >>, discarded |-> << >>,
   round |-> 1, turn |-> 0, turnOrder |-> << >>, melds |-> << >>,
   numberOfPlayers |-> 0, timer |-> FALSE, buyers |-> << >>, buyTimeouts |-> 0,
   timeout |-> FALSE, discardTimeouts |-> 0,
   crashed |-> FALSE, discarder |-> NoPlayer]

\* socket.on("createRoom")
createRoom(g, user, numberOfPlayers) ==
  IF g.exists THEN Ret(g, "false")
  ELSE Ret(addPlayer([NewGame(numberOfPlayers) EXCEPT
                        !.buyTimeouts = g.buyTimeouts,
                        !.discardTimeouts = g.discardTimeouts],
                     user, user), "true")

\* Object.keys(game.players).find(player => game.players[player].socketId === null),
\* NoPlayer for undefined.
DisconnectedPlayer(g) ==
  IF \E i \in 1..Len(g.players) : g.players[i].socketId = NoPlayer
  THEN g.players[CHOOSE i \in 1..Len(g.players) :
                   g.players[i].socketId = NoPlayer
                   /\ \A k \in 1..(i - 1) : g.players[k].socketId # NoPlayer].id
  ELSE NoPlayer

\* socket.on("joinRoom")
joinRoom(g, user, seed) ==
  IF ~g.exists THEN Ret(g, "false")
  ELSE IF Len(g.players) >= g.numberOfPlayers
  THEN IF DisconnectedPlayer(g) = NoPlayer THEN Ret(g, "false")
       ELSE Ret(reconnect(g, DisconnectedPlayer(g), user, user).g, "true")
  ELSE LET g1 == addPlayer(g, user, user)
       IN  Ret(IF g1.numberOfPlayers = Len(g1.players) THEN deal(g1, seed) ELSE g1, "true")

\* socket.on("leaveRoom"): the key is deleted from players (turnOrder is not
\* touched); the room is deleted with its last player.
leaveRoom(g, user) ==
  LET g1 == [g EXCEPT !.players = SelectSeq(@, LAMBDA p : p.id # user)]
  IN  IF g1.players = << >>
      THEN Ret([NoRoom EXCEPT !.numberOfPlayers = g.numberOfPlayers,
                              !.timer = g.timer, !.buyers = g.buyers,
                              !.buyTimeouts = g.buyTimeouts,
                              !.timeout = g.timeout,
                              !.discardTimeouts = g.discardTimeouts], "undefined")
      ELSE Ret(g1, "undefined")

\* socket.on("drawCard")
drawCard(g, user) == draw(g, user)

\* snackBar(room, user, action) reads rooms[room].players[user].name
SnackBarThrows(g, user) == ~HasPlayer(g, user)

\* socket.on("discardCard").  getDeck reads rooms[room].deck.deck, the test
\* for the end of the round reads players[user].hand.
discardCard(g, user, card, seed) ==
  LET d == discard([g EXCEPT !.timer = FALSE, !.timeout = FALSE,
                             !.discardTimeouts = IF g.timeout THEN @ - 1 ELSE @],
                   user, card)
  IN  IF d.ret = "throw" THEN d
      ELSE IF ~d.g.hasDeck \/ ~HasPlayer(d.g, user) THEN Throw(d.g)
      ELSE IF PlayerOf(d.g, user).hand = << >>
           THEN LET e == endRound(d.g, seed)
                IN  IF e.ret = "throw" THEN e ELSE Ret(e.g, d.ret)
           ELSE IF SnackBarThrows(d.g, TurnPlayer(d.g)) THEN Throw(d.g)
           ELSE d

\* socket.on("newMeld")
newMeld(g, user, groups) == meld(g, user, groups)

\* socket.on("buyProcess")
buyProcess(g) ==
  IF ~g.timer THEN Ret([g EXCEPT !.timer = TRUE, !.buyTimeouts = @ + 1], "undefined")
  ELSE Ret(g, "undefined")

\* socket.on("buyCard")
buyCard(g, user) == Ret([g EXCEPT !.buyers = Append(@, user)], "undefined")

\* handleCardBuyProcess, run by one of the pending timeouts.
handleCardBuyProcess(g) ==
  LET g1 == [g EXCEPT !.timer = FALSE, !.buyTimeouts = @ - 1]
      done(h) == [h EXCEPT !.buyers = << >>]
  IN  IF g1.buyers = << >> THEN Ret(done(g1), "null")
      ELSE IF ~g1.exists THEN Throw(g1)
      ELSE LET buyer == determineBuy(g1, g1.buyers)
           IN  IF buyer = -1 THEN Throw(g1)
               ELSE IF buyer = NoPlayer THEN Ret(done(g1), "false")
               ELSE LET r == buy(g1, buyer)
                    IN  IF r.ret = "throw" THEN r ELSE Ret(done(r.g), "bought")

\* handleDiscardCard, run by one of the pending timeouts; k is the index
\* Math.random picks (hand[0] is undefined when the hand is empty).
handleDiscardCard(g, k) ==
  LET g0 == [g EXCEPT !.timeout = FALSE, !.timer = FALSE, !.discardTimeouts = @ - 1]
      user == TurnPlayer(g0)
  IN  IF ~g0.exists \/ ~HasPlayer(g0, user) THEN Throw(g0)
      ELSE LET hand == PlayerOf(g0, user).hand
               card == IF k + 1 <= Len(hand) THEN hand[k + 1] ELSE Undef
               d == discard(g0, user, card)
           IN  IF d.ret = "throw" THEN d
               ELSE IF SnackBarThrows(d.g, TurnPlayer(d.g)) THEN Throw(d.g)
               ELSE d

\* getOtherPlayers(room, user) looks for user in turnOrder with a loop that
\* never ends when user is not there, then reads every other seat's player.
GetOtherPlayersFails(g, user) ==
  \/ ~Includes(g.turnOrder, user)
  \/ \E i \in 1..Len(g.turnOrder) :
       g.turnOrder[i] # user /\ ~HasPlayer(g, g.turnOrder[i])

\* socket.on("updateAfterBuy"); a server caught in the endless loop serves
\* no more than one that has crashed.
updateAfterBuy(g, user) ==
  IF GetOtherPlayersFails(g, user) \/ ~g.hasDeck THEN Throw(g)
  ELSE IF ~g.timer
  THEN Ret([g EXCEPT !.timer = TRUE, !.timeout = TRUE, !.discardTimeouts = @ + 1],
           "undefined")
  ELSE Ret(g, "undefined")

\* socket.on("swapWithMeld")
swapWithMeldMsg(g, user, card, meldDropID) == swapWithMeld(g, user, card, meldDropID)

\* socket.on("addToMeld")
addToMeldMsg(g, user, card, meldDropID) == addToMeld(g, user, card, meldDropID)

\* One step of the loop of socket.on("disconnecting") over the players, from
\* player j on: every player whose socketId is the socket's is disconnected.
RECURSIVE DisconnectFrom(_, _, _)
DisconnectFrom(g, socket, j) ==
  IF j > Len(g.players) THEN g
  ELSE DisconnectFrom(IF g.players[j].socketId = socket
                      THEN disconnect(g, g.players[j].id).g ELSE g, socket, j + 1)

\* socket.on("disconnecting")
disconnecting(g, socket) == Ret(DisconnectFrom(g, socket, 1), "undefined")

(***************************************************************************)
(* Client messages.  A message is [op, user, a, b, c, seed]; the cards it  *)
(* names are given by their place in the sender's hand, so that a message  *)
(* means the same in every state.  seed is the outcome of the shuffle,     *)
(* should the handler deal.                                                *)
(***************************************************************************)
NumUsers == 3
MaxPlayers == 3
MaxMeldLen == 6
MaxSteps == 2

Users == 1..NumUsers

Msg(op, user, a, b, c, seed) ==
  [op |-> op, user |-> user, a |-> a, b |-> b, c |-> c, seed |-> seed]

HandOf(g, user) == IF HasPlayer(g, user) THEN PlayerOf(g, user).hand ELSE << >>

\* A card that is not in the hand: the one with the greatest id, from c down.
RECURSIVE ForeignFrom(_, _)
ForeignFrom(hand, c) ==
  IF c = 1 \/ ~Includes(hand, c) THEN c ELSE ForeignFrom(hand, c - 1)

Foreign(hand) == ForeignFrom(hand, NumCards)

\* The card a message names by position pos: the card at that place of the
\* sender's hand, a card not in the hand for position 0.
CardAt(g, user, pos) ==
  IF pos >= 1 /\ pos <= Len(HandOf(g, user)) THEN HandOf(g, user)[pos]
  ELSE Foreign(HandOf(g, user))

\* The groups of a newMeld message: none for l1 = -1; else the first l1
\* cards of the hand, and for l2 >= 0 the l2 cards after them as a second
\* group.  With extra = 1 the last group names its last card a second time.
GroupsOf(g, user, l1, l2, extra) ==
  LET hand == HandOf(g, user)
      upto(n) == IF n > Len(hand) THEN Len(hand) ELSE n
      g1 == SubSeq(hand, 1, upto(l1))
      g2 == SubSeq(hand, upto(l1) + 1, upto(l1 + l2))
      more(grp) == IF extra = 1 /\ grp # << >> THEN Append(grp, grp[Len(grp)]) ELSE grp
  IN  IF l1 < 0 THEN << >>
      ELSE IF l2 < 0 THEN << more(g1) >>
      ELSE << g1, more(g2) >>

\* The handler a message is given to.
Handle(g, m) ==
  CASE m.op = "createRoom" -> createRoom(g, m.user, m.a)
    [] m.op = "joinRoom" -> joinRoom(g, m.user, m.seed)
    [] m.op = "leaveRoom" -> leaveRoom(g, m.user)
    [] m.op = "drawCard" -> drawCard(g, m.user)
    [] m.op = "discardCard" -> discardCard(g, m.user, CardAt(g, m.user, m.a), m.seed)
    [] m.op = "newMeld" -> newMeld(g, m.user, GroupsOf(g, m.user, m.a, m.b, m.c))
    [] m.op = "buyProcess" -> buyProcess(g)
    [] m.op = "buyCard" -> buyCard(g, m.user)
    [] m.op = "handleCardBuyProcess" -> handleCardBuyProcess(g)
    [] m.op = "swapWithMeld" -> swapWithMeldMsg(g, m.user, CardAt(g, m.user, m.a), m.b)
    [] m.op = "addToMeld" -> addToMeldMsg(g, m.user, CardAt(g, m.user, m.a), m.b)
    [] m.op = "disconnecting" -> disconnecting(g, m.user)
    [] m.op = "handleDiscardCard" -> handleDiscardCard(g, m.a)
    [] m.op = "updateAfterBuy" -> updateAfterBuy(g, m.user)

\* The room after the messages of script from the k-th on; a process that
\* has crashed handles no more of them.
RECURSIVE Run(_, _, _)
Run(g, script, k) ==
  IF k > Len(script) THEN g
  ELSE LET h == Handle(g, script[k]).g
       IN  IF h.crashed THEN h ELSE Run(h, script, k + 1)

(***************************************************************************)
(* Rooms the model starts from.  Each is the room after a sequence of      *)
(* messages from the start of the process, so each is a state the program  *)
(* reaches: the state after construction itself, a room of two just dealt  *)
(* (either shuffle), the start of each later round, a room in which a buy  *)
(* has found the discard pile empty, a table with melds of both players,   *)
(* and a room a player has rejoined.                                       *)
(***************************************************************************)
\* Two players join; the deck is shuffled with the seed.
Seat(seed) ==
  << Msg("createRoom", 1, 2, 0, 0, 1), Msg("joinRoom", 2, 0, 0, 0, seed) >>

\* The player whose turn it is goes out: with the rank-by-rank shuffle a
\* hand is four aces, four twos and three threes, which the player melds
\* as the round asks (first the groups of lengths a and b, then the next c
\* cards) and then discards the card left.
GoOut(user, a, b, c) ==
  << Msg("newMeld", user, a, b, 0, 2) >>
  \o (IF c > 0 THEN << Msg("newMeld", user, c, -1, 0, 2) >> ELSE << >>)
  \o << Msg("discardCard", user, 1, 0, 0, 2) >>

Round2 == Seat(2) \o GoOut(1, 5, 5, 0)
Round3 == Round2 \o GoOut(2, 4, -1, 6)
Round4 == Round3 \o GoOut(1, 5, 5, 0)
Round5 == Round4 \o GoOut(2, 5, -1, 5)
Round6 == Round5 \o GoOut(1, 6, -1, 4)
\* The game is complete: round 6 has ended.
Round7 == Round6 \o GoOut(2, 5, 5, 0)

\* Player 1 melds, player 2 buys the opening discard, then player 1 buys
\* from the empty discard pile.
BuyOnce(user) ==
  << Msg("buyCard", user, 0, 0, 0, 1), Msg("buyProcess", user, 0, 0, 0, 1),
     Msg("handleCardBuyProcess", user, 0, 0, 0, 1) >>
EmptyPileBuy ==
  Seat(2) \o << Msg("newMeld", 1, 3, 3, 0, 2) >> \o BuyOnce(2) \o BuyOnce(1)

\* Both players have melded and player 1 has drawn.
Table ==
  Seat(2) \o << Msg("newMeld", 1, 3, 3, 0, 2), Msg("newMeld", 2, 3, 3, 0, 2),
                Msg("drawCard", 1, 0, 0, 0, 1) >>

\* Player 2 has lost the connection and has joined again under the same id.
Rejoined ==
  Seat(2) \o << Msg("disconnecting", 2, 0, 0, 0, 1),
                Msg("joinRoom", 2, 0, 0, 0, 1) >>

\* Player 2 has bought the opening discard: the discard pile is empty.
OpeningBought == Seat(2) \o BuyOnce(2)

\* Then player 1 has discarded and has asked to buy the card back.
OwnDiscard ==
  OpeningBought
  \o << Msg("discardCard", 1, 1, 0, 0, 1), Msg("buyCard", 1, 0, 0, 0, 1),
        Msg("buyProcess", 1, 0, 0, 0, 1) >>

\* Player 1 has drawn, the turn's timeout is set, and player 1 has melded
\* all cards but one.
LastCard ==
  Seat(2)
  \o << Msg("drawCard", 1, 0, 0, 0, 1), Msg("updateAfterBuy", 1, 0, 0, 0, 1),
        Msg("newMeld", 1, 6, 5, 0, 1) >>

\* Three players join; the deck is shuffled rank by rank, so player 1 holds
\* three aces, three twos, two threes and three fours.
Seat3 ==
  << Msg("createRoom", 1, 3, 0, 0, 1), Msg("joinRoom", 2, 0, 0, 0, 1),
     Msg("joinRoom", 3, 0, 0, 0, 2) >>

\* Player 3 has bought the opening discard and player 2 has bought from the
\* empty discard pile; player 1 has drawn and has melded all cards but the
\* one drawn.
UndefOpponent ==
  Seat3 \o BuyOnce(3) \o BuyOnce(2)
  \o << Msg("drawCard", 1, 0, 0, 0, 1), Msg("newMeld", 1, 4, 4, 0, 1),
        Msg("newMeld", 1, 3, -1, 0, 1) >>

\* Two turn timeouts are pending.  A client asks for the buy window of the
\* opening discard; player 1 discards at once and the other client asks for
\* the buy window of that discard: two buy timeouts are pending.  The first
\* runs, a client sends updateAfterBuy (player 2's turn timeout is set), the
\* second runs and clears the timer, and the other client's updateAfterBuy
\* sets a second turn timeout.
TwoWindows ==
  Seat(2)
  \o << Msg("buyProcess", 2, 0, 0, 0, 1), Msg("discardCard", 1, 1, 0, 0, 1),
        Msg("buyProcess", 1, 0, 0, 0, 1),
        Msg("handleCardBuyProcess", NoPlayer, 0, 0, 0, 1),
        Msg("updateAfterBuy", 2, 0, 0, 0, 1),
        Msg("handleCardBuyProcess", NoPlayer, 0, 0, 0, 1),
        Msg("updateAfterBuy", 1, 0, 0, 0, 1) >>

Scripts ==
  << << >>, Seat(1), Seat(2), Round2, Round3, Round4, Round5, Round6,
     EmptyPileBuy, Table, Rejoined, OpeningBought, OwnDiscard, LastCard,
     UndefOpponent, Round7, TwoWindows >>

(***************************************************************************)
(* The state: the fields of the room (see NewGame), the last message       *)
(* handled with what it returned, the number of messages handled, and for  *)
(* the check of isRun a group of cards with the verdict on it.             *)
(***************************************************************************)
VARIABLES exists, players, connectedPlayerCount, hasDeck, deck, discarded,
          round, turn, turnOrder, melds, numberOfPlayers, timer, buyers,
          buyTimeouts, timeout, discardTimeouts, crashed, discarder,
          last, steps, probe, verdict

roomVars == << exists, players, connectedPlayerCount, hasDeck, deck, discarded,
               round, turn, turnOrder, melds, numberOfPlayers, timer, buyers,
               buyTimeouts, timeout, discardTimeouts, crashed, discarder >>
vars == << roomVars, last, steps, probe, verdict >>

\* The room as a record.
G ==
  [exists |-> exists, players |-> players, connectedPlayerCount |-> connectedPlayerCount,
   hasDeck |-> hasDeck, deck |-> deck, discarded |-> discarded,
   round |-> round, turn |-> turn, turnOrder |-> turnOrder, melds |-> melds,
   numberOfPlayers |-> numberOfPlayers, timer |-> timer, buyers |-> buyers,
   buyTimeouts |-> buyTimeouts, timeout |-> timeout,
   discardTimeouts |-> discardTimeouts, crashed |-> crashed, discarder |-> discarder]

Is(g) ==
  /\ exists = g.exists
  /\ players = g.players
  /\ connectedPlayerCount = g.connectedPlayerCount
  /\ hasDeck = g.hasDeck
  /\ deck = g.deck
  /\ discarded = g.discarded
  /\ round = g.round
  /\ turn = g.turn
  /\ turnOrder = g.turnOrder
  /\ melds = g.melds
  /\ numberOfPlayers = g.numberOfPlayers
  /\ timer = g.timer
  /\ buyers = g.buyers
  /\ buyTimeouts = g.buyTimeouts
  /\ timeout = g.timeout
  /\ discardTimeouts = g.discardTimeouts
  /\ crashed = g.crashed
  /\ discarder = g.discarder

Becomes(g) ==
  /\ exists' = g.exists
  /\ players' = g.players
  /\ connectedPlayerCount' = g.connectedPlayerCount
  /\ hasDeck' = g.hasDeck
  /\ deck' = g.deck
  /\ discarded' = g.discarded
  /\ round' = g.round
  /\ turn' = g.turn
  /\ turnOrder' = g.turnOrder
  /\ melds' = g.melds
  /\ numberOfPlayers' = g.numberOfPlayers
  /\ timer' = g.timer
  /\ buyers' = g.buyers
  /\ buyTimeouts' = g.buyTimeouts
  /\ timeout' = g.timeout
  /\ discardTimeouts' = g.discardTimeouts
  /\ crashed' = g.crashed
  /\ discarder' = g.discarder

NoLast == [op |-> "none", user |-> NoPlayer, ret |-> "none"]
NoVerdict == [op |-> "none", ret |-> FALSE, type |-> "none"]

Init ==
  /\ \E k \in 1..Len(Scripts) : Is(Run(NoRoom, Scripts[k], 1))
  /\ last = NoLast
  /\ steps = 0
  /\ probe = << >>
  /\ verdict = NoVerdict

\* The server is up and the model's budget of messages is not used up.
Ready == ~crashed /\ steps < MaxSteps

\* The server handles message m.
Do(m) ==
  /\ LET r == Handle(G, m)
     IN  /\ Becomes(r.g)
         /\ last' = [op |-> m.op, user |-> m.user, ret |-> r.ret]
  /\ steps' = steps + 1
  /\ UNCHANGED << probe, verdict >>

CreateRoom ==
  \E u \in Users, n \in 2..MaxPlayers :
    /\ Ready
    /\ Do(Msg("createRoom", u, n, 0, 0, 1))

JoinRoom ==
  \E u \in Users, seed \in Seeds :
    /\ Ready
    /\ Do(Msg("joinRoom", u, 0, 0, 0, seed))

LeaveRoom ==
  \E u \in Users :
    /\ Ready /\ exists
    /\ Do(Msg("leaveRoom", u, 0, 0, 0, 1))

DrawCard ==
  \E u \in Users :
    /\ Ready /\ exists
    /\ Do(Msg("drawCard", u, 0, 0, 0, 1))

\* The card discarded: the first or the last of the hand, or one not in it.
DiscardCard ==
  \E u \in Users : \E pos \in {0, 1, Len(HandOf(G, u))}, seed \in Seeds :
    /\ Ready /\ exists
    /\ CardAt(G, u, pos) # Undef
    /\ Do(Msg("discardCard", u, pos, 0, 0, seed))

\* The groups a newMeld message of user names in room g: see GroupsOf.  No
\* group, one group of up to MaxMeldLen cards, or two groups of the same
\* length, of cards the hand has.
MeldInput(g, u, l1, l2, extra) ==
  /\ l2 \in {-1, l1}
  /\ (IF l1 < 0 THEN 0 ELSE l1) + (IF l2 < 0 THEN 0 ELSE l2) <= Len(HandOf(g, u))
  /\ extra = 1 => (IF l2 < 0 THEN l1 ELSE l2) > 0
  /\ ~HasUndef(Flatten(GroupsOf(g, u, l1, l2, extra)))

NewMeldMsg ==
  \E u \in Users, l1 \in -1..MaxMeldLen, extra \in 0..1 : \E l2 \in {-1, l1} :
    /\ Ready /\ exists
    /\ MeldInput(G, u, l1, l2, extra)
    /\ Do(Msg("newMeld", u, l1, l2, extra, 1))

BuyProcess ==
  /\ Ready /\ exists
  /\ Do(Msg("buyProcess", NoPlayer, 0, 0, 0, 1))

BuyCard ==
  \E u \in Users :
    /\ Ready /\ exists
    /\ Do(Msg("buyCard", u, 0, 0, 0, 1))

HandleCardBuyProcess ==
  /\ Ready /\ buyTimeouts > 0
  /\ Do(Msg("handleCardBuyProcess", NoPlayer, 0, 0, 0, 1))

\* The meld named: one of the active melds, or an id no meld has.
SwapWithMeld ==
  \E u \in Users : \E pos \in 0..Len(HandOf(G, u)), id \in 0..Len(melds) :
    /\ Ready /\ exists
    /\ CardAt(G, u, pos) # Undef
    /\ Do(Msg("swapWithMeld", u, pos, id, 0, 1))

AddToMeld ==
  \E u \in Users : \E pos \in 0..Len(HandOf(G, u)), id \in 0..Len(melds) :
    /\ Ready /\ exists
    /\ CardAt(G, u, pos) # Undef
    /\ Do(Msg("addToMeld", u, pos, id, 0, 1))

Disconnecting ==
  \E u \in Users :
    /\ Ready /\ exists
    /\ \E i \in 1..Len(players) : players[i].socketId = u
    /\ Do(Msg("disconnecting", u, 0, 0, 0, 1))

UpdateAfterBuy ==
  \E u \in Users :
    /\ Ready /\ exists
    /\ Do(Msg("updateAfterBuy", u, 0, 0, 0, 1))

\* The index picked at random: the first or the last of the hand.
HandleDiscardCard ==
  \E k \in {0, Len(HandOf(G, TurnPlayer(G))) - 1} :
    /\ Ready /\ discardTimeouts > 0
    /\ k >= 0
    /\ Do(Msg("handleDiscardCard", NoPlayer, k, 0, 0, 1))

Next ==
  \/ CreateRoom
  \/ JoinRoom
  \/ LeaveRoom
  \/ DrawCard
  \/ DiscardCard
  \/ NewMeldMsg
  \/ BuyProcess
  \/ BuyCard
  \/ HandleCardBuyProcess
  \/ SwapWithMeld
  \/ AddToMeld
  \/ Disconnecting
  \/ UpdateAfterBuy
  \/ HandleDiscardCard

Spec == Init /\ [][Next]_vars

(***************************************************************************)
(* Meld.isRun on its own: a group of cards is put together card by card    *)
(* from a pool (two suits, both copies of the first, the ranks up to       *)
(* MaxProbeRank, the wild rank among them) and isRun is asked about it.    *)
(***************************************************************************)
ProbePool ==
  {CardId(1, r, c) : r \in 1..MaxProbeRank, c \in 1..NumDecks}
  \cup {CardId(2, r, 1) : r \in 1..MaxProbeRank}

InitGroup ==
  /\ Is(NoRoom)
  /\ last = NoLast
  /\ steps = 0
  /\ probe = << >>
  /\ verdict = NoVerdict

Pick ==
  \E c \in ProbePool :
    /\ Len(probe) < MaxGroupLen
    /\ ~Includes(probe, c)
    /\ probe' = Append(probe, c)
    /\ verdict' = NoVerdict
    /\ UNCHANGED << roomVars, last, steps >>

CheckRun ==
  /\ verdict = NoVerdict
  /\ verdict' = [op |-> "isRun", ret |-> isRun(probe), type |-> "none"]
  /\ UNCHANGED << roomVars, last, steps, probe >>

CheckSet ==
  /\ verdict = NoVerdict
  /\ verdict' = [op |-> "isSet", ret |-> isSet(probe), type |-> "none"]
  /\ UNCHANGED << roomVars, last, steps, probe >>

\* new Meld(0, probe): ret is FALSE when the constructor throws, else type
\* is the type of the meld made.
Construct ==
  /\ verdict = NoVerdict
  /\ verdict' = IF MeldThrows(probe)
                THEN [op |-> "Meld", ret |-> FALSE, type |-> "none"]
                ELSE [op |-> "Meld", ret |-> TRUE,
                      type |-> NewMeld(0, probe, NoPlayer).type]
  /\ UNCHANGED << roomVars, last, steps, probe >>

NextGroup == Pick \/ CheckRun \/ CheckSet \/ Construct

SpecGroup == InitGroup /\ [][NextGroup]_vars

(***************************************************************************)
(* class Deck on its own.  reDeck is called by nothing in the repository,  *)
(* so it is checked on a deck that is built, drawn from and discarded to:  *)
(* deck and discarded are the two piles, probe the cards drawn and not yet *)
(* discarded, verdict the last operation (ret: the discard pile held cards *)
(* when it was called).                                                    *)
(***************************************************************************)
MaxHeld == 3
MaxDeckSteps == 6

\* The outcomes of the shuffle the model takes for a pile of any length: the
\* pile as it is, and the pile rotated.
ReDeckSeeds == {1, NumShuffles + 1}

\* Deck.discardCard
Deck_discardCard(d, card) == [d EXCEPT !.discarded = Append(@, card)]

\* reDeck that forgets the discard pile instead of putting it back.
reDeck_dropDiscards(d, seed) ==
  [d EXCEPT !.deck = shuffle(d.deck, seed), !.discarded = << >>]

\* Deck.reDeck
reDeck(d, seed) ==
  [d EXCEPT !.deck = shuffle(d.deck \o d.discarded, seed), !.discarded = << >>]

\* The two piles as a Deck object.
Piles == [deck |-> deck, discarded |-> discarded]

deckFrame == << exists, players, connectedPlayerCount, hasDeck, round, turn,
               turnOrder, melds, numberOfPlayers, timer, buyers, buyTimeouts,
               timeout, discardTimeouts, crashed, discarder, last >>

\* new Deck(suits, ranks, values, 2, true)
InitDeck ==
  /\ \E seed \in Seeds : Is([NoRoom EXCEPT !.deck = shuffle(FreshDeck, seed)])
  /\ last = NoLast
  /\ steps = 0
  /\ probe = << >>
  /\ verdict = NoVerdict

DeckDraw ==
  /\ steps < MaxDeckSteps /\ Len(probe) < MaxHeld /\ deck # << >>
  /\ probe' = Append(probe, Shift(deck))
  /\ deck' = ShiftRest(deck)
  /\ verdict' = [op |-> "drawCard", ret |-> discarded # << >>, type |-> "none"]
  /\ steps' = steps + 1
  /\ UNCHANGED << deckFrame, discarded >>

DeckDiscard ==
  \E i \in 1..Len(probe) :
    /\ steps < MaxDeckSteps
    /\ discarded' = Deck_discardCard(Piles, probe[i]).discarded
    /\ probe' = RemoveAt(probe, i)
    /\ verdict' = [op |-> "discardCard", ret |-> discarded # << >>, type |-> "none"]
    /\ steps' = steps + 1
    /\ UNCHANGED << deckFrame, deck >>

ReDeck ==
  \E seed \in ReDeckSeeds :
    /\ steps < MaxDeckSteps
    /\ deck' = reDeck(Piles, seed).deck
    /\ discarded' = reDeck(Piles, seed).discarded
    /\ verdict' = [op |-> "reDeck", ret |-> discarded # << >>, type |-> "none"]
    /\ steps' = steps + 1
    /\ UNCHANGED << deckFrame, probe >>

NextDeck == DeckDraw \/ DeckDiscard \/ ReDeck

SpecDeck == InitDeck /\ [][NextDeck]_vars

(***************************************************************************)
(* The properties checked.                                                 *)
(***************************************************************************)
\* Every card of the deck is in exactly one of the piles, hands and melds of
\* room g, and nothing else is in them.
AllCardsOf(g) ==
  g.deck \o g.discarded
  \o Flatten(Tuple([i \in 1..Len(g.players) |-> g.players[i].hand], Len(g.players)))
  \o Flatten(Tuple([i \in 1..Len(g.melds) |-> g.melds[i].cards], Len(g.melds)))

ConservedIn(g) ==
  /\ Len(AllCardsOf(g)) = NumCards
  /\ \A c \in Cards : Includes(AllCardsOf(g), c)

RoundOps ==
  {"joinRoom", "drawCard", "discardCard", "handleCardBuyProcess", "newMeld",
   "swapWithMeld", "addToMeld", "disconnecting"}

\* C1: card conservation.  An operation of a round (deal, draw, discard,
\* buy, meld, swapWithMeld, addToMeld, reconnect, disconnect) on a dealt room
\* in which each of the 104 cards is in exactly one of draw pile, discard
\* pile, hands and melds leaves the room so, whatever card it names.
C1_CardConservation ==
  [][(hasDeck /\ ConservedIn(G) /\ last'.op \in RoundOps /\ ~crashed')
       => ConservedIn(G')]_vars

\* C2: every successful discard moves the turn to the next seat of
\* turnOrder, round robin: turn becomes (turn + 1) mod |turnOrder|.
C2_RoundRobin ==
  [][(last'.op = "discardCard" /\ last'.ret = "true" /\ ~crashed')
       => turn' = (turn + 1) % Len(turnOrder)]_vars

\* C3: discard(player, card) by any player other than turnOrder[turn] is a
\* no-op: it returns with the room (hands, piles, turn, round, melds, buys,
\* points) as it was, for every player and every card, in every state.
C3_DiscardOutOfTurn ==
  exists =>
    \A p \in Users, c \in 0..NumCards :
      p # TurnPlayer(G) => discard(G, p, c) = Ret(G, "undefined")

\* A player who is not at turn has sent discardCard, holding cards.
C3_Witness ==
  /\ last.op = "discardCard" /\ last.ret = "undefined"
  /\ hasDeck /\ HandOf(G, last.user) # << >>
  /\ last.user # TurnPlayer(G)

\* The table of first melds as stated: groups and least length per round.
RoundGroups == << 2, 1, 2, 1, 1, 2 >>
RoundMinLen == << 3, 4, 4, 5, 6, 5 >>

\* C4: a meld accepted from a player who owns no meld, in round 1..6, has
\* the round's number of groups, each of at least the round's length and
\* none of type RUN (a run that is not a set).
C4_FirstMeldShape ==
  [][(last'.op = "newMeld" /\ last'.ret = "true" /\ ~hasMeld(G, last'.user)
      /\ round \in 1..LastRound)
       => LET m == SubSeq(melds', Len(melds) + 1, Len(melds'))
          IN  /\ Len(m) = RoundGroups[round]
              /\ \A i \in 1..Len(m) :
                   /\ Len(m[i].cards) >= RoundMinLen[round]
                   /\ ~(isRun(m[i].cards) /\ ~isSet(m[i].cards))]_vars

\* The first meld of round 6 has been accepted.
C4_Witness ==
  /\ last.op = "newMeld" /\ last.ret = "true"
  /\ round = LastRound /\ Len(melds) = RoundGroups[LastRound]
  /\ \A i \in 1..Len(melds) : melds[i].playerID = last.user

\* C5: a player who owns a meld may meld any valid groups: meld is accepted
\* whenever every group is a set or a run and the number of cards melded
\* differs from the size of the hand.
C5_LaterMeldFree ==
  (exists /\ ~crashed) =>
    \A u \in Users, l1 \in -1..MaxMeldLen, extra \in 0..1 : \A l2 \in {-1, l1} :
      LET groups == GroupsOf(G, u, l1, l2, extra)
      IN  (/\ HasPlayer(G, u) /\ hasMeld(G, u)
           /\ MeldInput(G, u, l1, l2, extra)
           /\ \A i \in 1..Len(groups) : ~MeldThrows(groups[i])
           /\ Len(Flatten(groups)) # Len(HandOf(G, u)))
          => meld(G, u, groups).ret = "true"

\* C6: a meld that is rejected leaves the room as it was.
C6_RejectedMeldNoChange ==
  (exists /\ ~crashed) =>
    \A u \in Users, l1 \in -1..MaxMeldLen, extra \in 0..1 : \A l2 \in {-1, l1} :
      (MeldInput(G, u, l1, l2, extra)
       /\ meld(G, u, GroupsOf(G, u, l1, l2, extra)).ret = "false")
      => meld(G, u, GroupsOf(G, u, l1, l2, extra)).g = G

\* C7: an accepted meld, addToMeld or swapWithMeld of a player holding
\* cards leaves the player at least one card.
C7_OnlyDiscardEmpties ==
  [][(last'.op \in {"newMeld", "addToMeld", "swapWithMeld"} /\ last'.ret = "true"
      /\ HandOf(G, last'.user) # << >>)
       => HandOf(G', last'.user) # << >>]_vars

\* C8: every active meld has at least 3 cards.
C8_MeldsOfThree ==
  \A i \in 1..Len(melds) : Len(melds[i].cards) >= 3

\* C9: the cards of every active meld form a valid set or a valid run, in
\* every state, so also after every Meld.addCard and Meld.swap.
C9_MeldsValid ==
  \A i \in 1..Len(melds) :
    /\ ~HasUndef(melds[i].cards)
    /\ isSet(melds[i].cards) \/ isRun(melds[i].cards)

\* On the table of four melds of three cards a card has been added to a
\* meld and then a card has been swapped with a wild card of a meld.
C9_Witness ==
  /\ last.op = "swapWithMeld" /\ last.ret = "true"
  /\ Len(melds) = 4 /\ steps = 2
  /\ \E i \in 1..Len(melds) : Len(melds[i].cards) = 4

\* The run as stated, of the cards of group that are not wild: one suit,
\* distinct orders, and no more orders missing between the least and the
\* greatest than the group has wild cards.
RunAsStated(group) ==
  LET nw == {i \in 1..Len(group) : orderOf(group[i]) # WildOrder}
      wild == Len(group) - Cardinality(nw)
      orders == {orderOf(group[i]) : i \in nw}
      least == CHOOSE o \in orders : \A x \in orders : o <= x
      greatest == CHOOSE o \in orders : \A x \in orders : o >= x
  IN  /\ \A i, j \in nw : suitOf(group[i]) = suitOf(group[j])
      /\ \A i, j \in nw : i # j => orderOf(group[i]) # orderOf(group[j])
      /\ nw # {} => (greatest - least + 1) - Cardinality(orders) <= wild

SetAsStated(group) ==
  \A i, j \in 1..Len(group) :
    (orderOf(group[i]) # WildOrder /\ orderOf(group[j]) # WildOrder)
      => orderOf(group[i]) = orderOf(group[j])

C12_MeldType ==
  verdict.op = "Meld" =>
    LET set == SetAsStated(probe)
        run == RunAsStated(probe)
    IN  /\ verdict.ret <=> (set \/ run)
        /\ (set /\ run) => verdict.type = "EITHER"
        /\ (set /\ ~run) => verdict.type = "SET"
        /\ (run /\ ~set) => verdict.type = "RUN"

\* A meld of type EITHER has been made of three cards, one of them not wild.
C12_Witness ==
  /\ verdict.op = "Meld" /\ verdict.ret /\ verdict.type = "EITHER"
  /\ Len(probe) = 3
  /\ \E i \in 1..Len(probe) : orderOf(probe[i]) # WildOrder

\* The lists of candidate buyers: one list for every set of users.
RECURSIVE SeqOf(_)
SeqOf(S) ==
  IF S = {} THEN << >>
  ELSE LET x == CHOOSE y \in S : \A z \in S : y <= z
       IN  << x >> \o SeqOf(S \ {x})

BuyerLists == {SeqOf(S) : S \in SUBSET Users}

\* Every seat of turnOrder is a player, once, and turn is a seat.
WellSeated(g) ==
  /\ g.exists /\ g.hasDeck /\ ~g.crashed
  /\ Len(g.turnOrder) = Len(g.players)
  /\ \A i \in 1..Len(g.turnOrder) : g.turnOrder[i] = g.players[i].id
  /\ g.turn < Len(g.turnOrder)

\* C13: with exactly one card in the discard pile, determineBuy never
\* returns the player who discarded last, whoever the candidates are.
C13_DiscarderExcluded ==
  (WellSeated(G) /\ Len(discarded) = 1 /\ discarder # NoPlayer)
    => \A cand \in BuyerLists : determineBuy(G, cand) # discarder

\* C14: the player whose discard was the last does not buy: a run of
\* handleCardBuyProcess before the next discard leaves that player's hand
\* and buys as they are.
C14_NoOwnDiscard ==
  [][(last'.op = "handleCardBuyProcess" /\ WellSeated(G) /\ discarder # NoPlayer
      /\ ~crashed')
       => PlayerOf(G', discarder) = PlayerOf(G, discarder)]_vars

\* The first player in the walk of turnOrder from index turn on (cyclic)
\* who is in cand, has buys left and is not the player excluded; NoPlayer
\* when there is none.
RECURSIVE FirstFrom(_, _, _, _)
FirstFrom(g, cand, excluded, j) ==
  IF j >= Len(g.turnOrder) THEN NoPlayer
  ELSE LET q == g.turnOrder[((g.turn + j) % Len(g.turnOrder)) + 1]
       IN  IF Includes(cand, q) /\ q # excluded /\ PlayerOf(g, q).buys > 0
           THEN q
           ELSE FirstFrom(g, cand, excluded, j + 1)

\* C15: determineBuy returns the first player, walking turnOrder from index
\* turn on, who is a candidate, has buys left and is not excluded as the
\* discarder, and none when there is no such player.  The discarder is
\* excluded when one card is in the discard pile; with another number of
\* cards the formula admits the answer with and without the exclusion.
\* A card is there to be bought.
C15_FirstEligible ==
  (WellSeated(G) /\ Len(discarded) >= 1) =>
    \A cand \in BuyerLists :
      \/ determineBuy(G, cand) = FirstFrom(G, cand, discarder, 0)
      \/ /\ Len(discarded) # 1
         /\ determineBuy(G, cand) = FirstFrom(G, cand, NoPlayer, 0)

\* C16: buy(player) with no buys left fails and changes nothing; else it
\* takes one buy, moves the top of the discard pile and then the front of
\* the draw pile into the hand, and changes nothing else; buys are in 0..6.
C16_Buy ==
  (exists /\ hasDeck /\ ~crashed) =>
    \A i \in 1..Len(players) :
      LET q == players[i]
          r == buy(G, q.id)
      IN  /\ q.buys \in 0..InitialBuys
          /\ q.buys = 0 => r = Ret(G, "false")
          /\ q.buys > 0 =>
                /\ r.ret # "throw"
                /\ Len(discarded) >= 1 /\ Len(deck) >= 1
                /\ r.g = [G EXCEPT
                            !.players[i].buys = @ - 1,
                            !.players[i].hand =
                               @ \o << discarded[Len(discarded)], deck[1] >>,
                            !.discarded = SubSeq(@, 1, Len(@) - 1),
                            !.deck = Tail(@)]

\* The sum of the values of the cards of hand, as the rules state it.
RECURSIVE ValueSum(_)
ValueSum(hand) ==
  IF hand = << >> THEN 0 ELSE valueOf(Head(hand)) + ValueSum(Tail(hand))

\* The room after the round that ends when the player at turn has discarded
\* their last card: every other hand is scored, the melds are cleared, the
\* round is incremented, and there is a new deal iff the new round is at
\* most LastRound.
RoundEnded(g, h) ==
  /\ h.round = g.round + 1
  /\ h.melds = << >>
  /\ Len(h.players) = Len(g.players)
  /\ \A i \in 1..Len(g.players) :
       /\ h.players[i].id = g.players[i].id
       /\ h.players[i].points =
            g.players[i].points
            + (IF g.players[i].id = TurnPlayer(g) THEN 0
               ELSE ValueSum(g.players[i].hand))
       /\ Len(h.players[i].hand) = (IF h.round <= LastRound THEN HandSize ELSE 0)
  /\ (h.round <= LastRound) => Len(h.discarded) = 1

\* C17: a discard that empties the hand of the discarding player ends the
\* round before anything else happens, whether the discard is the player's
\* discardCard message or the auto-discard of the turn's timeout: the hands
\* left are scored, the melds cleared, the round incremented and a new round
\* dealt iff the new round is at most 6.
\* The step discards the only card of the player at turn: by that player's
\* discardCard message naming the card, or by the timeout.
DiscardsLastCard ==
  /\ hasDeck /\ HasPlayer(G, TurnPlayer(G))
  /\ Len(PlayerOf(G, TurnPlayer(G)).hand) = 1
  /\ PlayerOf(G, TurnPlayer(G)).hand[1] # Undef
  /\ last'.ret = "true"
  /\ ~crashed'
  /\ \/ last'.op = "handleDiscardCard"
     \/ /\ last'.op = "discardCard"
        /\ last'.user = TurnPlayer(G)
        /\ \E seed \in Seeds :
             G' = discardCard(G, TurnPlayer(G),
                              PlayerOf(G, TurnPlayer(G)).hand[1], seed).g

C17_EmptyingDiscardEndsRound == [][DiscardsLastCard => RoundEnded(G, G')]_vars

\* The cards of a room: the hands, the draw pile and the discard pile.
CardsHeld(g) ==
  LET RECURSIVE HandsFrom(_)
      HandsFrom(j) == IF j > Len(g.players) THEN << >>
                      ELSE g.players[j].hand \o HandsFrom(j + 1)
  IN  HandsFrom(1) \o g.deck \o g.discarded

\* Room h is room g after the end of a round as the rules state it.
EndRoundAsStated(g, h) ==
  /\ h.round = g.round + 1
  /\ h.melds = << >>
  /\ Len(h.players) = Len(g.players)
  /\ \A i \in 1..Len(g.players) :
       /\ h.players[i].id = g.players[i].id
       /\ h.players[i].points = g.players[i].points + ValueSum(g.players[i].hand)
       /\ h.players[i].points >= g.players[i].points
  /\ IF h.round <= LastRound
     THEN /\ \A i \in 1..Len(h.players) : Len(h.players[i].hand) = HandSize
          /\ Len(h.discarded) = 1
          /\ Len(h.deck) = NumCards - HandSize * Len(h.players) - 1
          /\ {CardsHeld(h)[k] : k \in 1..Len(CardsHeld(h))} = Cards
     ELSE /\ \A i \in 1..Len(h.players) : h.players[i].hand = << >>
          /\ h.deck = g.deck /\ h.discarded = g.discarded

\* The step is the discardCard message of the player at turn that names the
\* only card of that player's hand: the handler discards it and calls
\* endRound.
CallsEndRound ==
  /\ hasDeck /\ HasPlayer(G, TurnPlayer(G))
  /\ Len(PlayerOf(G, TurnPlayer(G)).hand) = 1
  /\ PlayerOf(G, TurnPlayer(G)).hand[1] # Undef
  /\ last'.op = "discardCard"
  /\ last'.user = TurnPlayer(G)
  /\ \E seed \in Seeds :
       G' = discardCard(G, TurnPlayer(G), PlayerOf(G, TurnPlayer(G)).hand[1], seed).g

\* The room endRound is called on: the room after the discard.
BeforeEndRound ==
  discard(G, TurnPlayer(G), PlayerOf(G, TurnPlayer(G)).hand[1]).g

\* C18: endRound adds to each player's points the sum of the values of the
\* cards left in the hand (points never decrease), empties every hand,
\* clears the melds, increments the round, and deals a new round (11 cards
\* each, one opening discard, a fresh deck of 104) iff the new round is at
\* most 6.
C18_EndRound ==
  [][CallsEndRound => (~crashed' /\ EndRoundAsStated(BeforeEndRound, G'))]_vars

\* The messages of game play (not those by which players come and go, nor
\* the handlers the timeouts run).
PlayerOps ==
  {"drawCard", "discardCard", "newMeld", "buyProcess", "buyCard",
   "swapWithMeld", "addToMeld", "updateAfterBuy"}

\* The points and the hands of the players of room g.
Standing(g) ==
  Tuple([i \in 1..Len(g.players) |->
           [id |-> g.players[i].id, points |-> g.players[i].points,
            hand |-> g.players[i].hand]], Len(g.players))

\* C19: the round of a room is always between 1 and 7, and once it is 7
\* (the game is complete) no message of a player changes the round, the
\* points or the hands.
C19_RoundRange ==
  /\ [](exists => (round >= 1 /\ round <= LastRound + 1))
  /\ [][(exists /\ round = LastRound + 1 /\ last'.op \in PlayerOps)
        => (round' = round /\ Standing(G') = Standing(G))]_vars

\* The step deals: the joinRoom message that fills the room, or a
\* discardCard message that ends one of the rounds before the last.
Deals ==
  /\ ~crashed'
  /\ \/ /\ last'.op = "joinRoom"
        /\ Len(players') = Len(players) + 1
        /\ Len(players') = numberOfPlayers
     \/ /\ last'.op = "discardCard"
        /\ round' = round + 1
        /\ round' <= LastRound

\* The hand player j of the room after the step had when deal was called:
\* empty for a player who has just joined and after the end of a round.
HandBefore(j) ==
  IF last'.op = "joinRoom" /\ j <= Len(players) THEN players[j].hand ELSE << >>

\* The cards the deal has given to player j.
Given(j) == SubSeq(players'[j].hand, Len(HandBefore(j)) + 1, Len(players'[j].hand))

\* The cards of the deck the deal has built: those given, the draw pile and
\* the discard pile.
BuiltDeck ==
  LET RECURSIVE GivenFrom(_)
      GivenFrom(j) == IF j > Len(players') THEN << >> ELSE Given(j) \o GivenFrom(j + 1)
  IN  GivenFrom(1) \o deck' \o discarded'

\* C20: a deal with N players builds a deck of 104 cards with pairwise
\* distinct ids that holds every combination of rank and suit exactly
\* twice, gives each player exactly 11 cards, puts one card on the discard
\* pile and leaves 104 - 11 * N - 1 cards on the draw pile.
C20_Deal ==
  [][Deals =>
       /\ Len(BuiltDeck) = 104
       /\ \A a, b \in 1..Len(BuiltDeck) : a # b => BuiltDeck[a] # BuiltDeck[b]
       /\ \A k \in 1..Len(BuiltDeck) : BuiltDeck[k] \in Cards
       /\ \A su \in 1..NumSuits, ra \in 1..NumRanks :
            Cardinality({k \in 1..Len(BuiltDeck) :
                           suitOf(BuiltDeck[k]) = su /\ rankOf(BuiltDeck[k]) = ra}) = 2
       /\ \A j \in 1..Len(players') :
            /\ Len(players'[j].hand) = Len(HandBefore(j)) + 11
            /\ SubSeq(players'[j].hand, 1, Len(HandBefore(j))) = HandBefore(j)
       /\ Len(discarded') = 1
       /\ Len(deck') = 104 - 11 * Len(players') - 1]_vars

\* A room of two has been created and filled, and the cards are dealt.
C20_Witness ==
  /\ last.op = "joinRoom" /\ last.ret = "true" /\ steps = 2
  /\ exists /\ hasDeck /\ ~crashed
  /\ Len(players) = 2 /\ numberOfPlayers = 2
  /\ \A j \in 1..Len(players) : Len(players[j].hand) = 11

\* The step is a joinRoom message that the handler answers with
\* reconnect(ReconnectOld, ReconnectNew, socket): the room is full and a
\* player of it has no socket.
ReconnectOld == DisconnectedPlayer(G)
ReconnectNew == last'.user
Reconnects ==
  /\ exists /\ ~crashed
  /\ last'.op = "joinRoom"
  /\ Len(players) >= numberOfPlayers
  /\ ReconnectOld # NoPlayer
  /\ ReconnectNew # ReconnectOld

\* Room h is room g after player old has come back as new, as stated: the
\* record of old is kept under the new id, the melds of old are those of
\* new, the seat is kept, the other players are untouched, and old is gone
\* from players and turnOrder while new is in both.
ReconnectAsStated(g, h, old, new) ==
  /\ HasPlayer(h, new) /\ ~HasPlayer(h, old)
  /\ Includes(h.turnOrder, new) /\ ~Includes(h.turnOrder, old)
  /\ PlayerOf(h, new).hand = PlayerOf(g, old).hand
  /\ PlayerOf(h, new).points = PlayerOf(g, old).points
  /\ PlayerOf(h, new).buys = PlayerOf(g, old).buys
  /\ Len(h.melds) = Len(g.melds)
  /\ \A i \in 1..Len(g.melds) :
       /\ h.melds[i].cards = g.melds[i].cards
       /\ h.melds[i].playerID =
            (IF g.melds[i].playerID = old THEN new ELSE g.melds[i].playerID)
  /\ Len(h.turnOrder) = Len(g.turnOrder)
  /\ \A i \in 1..Len(g.turnOrder) :
       h.turnOrder[i] = (IF g.turnOrder[i] = old THEN new ELSE g.turnOrder[i])
  /\ \A i \in 1..Len(g.players) :
       g.players[i].id # old =>
         /\ HasPlayer(h, g.players[i].id)
         /\ PlayerOf(h, g.players[i].id) = g.players[i]

\* C21: reconnect(old, new, handle) keeps the hand, the points, the buys and
\* the melds of the player under the new id, keeps the seat in turnOrder,
\* leaves the records of the other players untouched, and leaves old in
\* neither players nor turnOrder and new in both.
C21_Reconnect ==
  [][Reconnects => (~crashed' /\ ReconnectAsStated(G, G', ReconnectOld, ReconnectNew))]_vars

\* The keys of the players mapping of room g, and the entries of a sequence.
KeysOf(g) == {g.players[i].id : i \in 1..Len(g.players)}
Entries(seq) == {seq[i] : i \in 1..Len(seq)}

\* Two seats that are in turnOrder before and after a step are in the same
\* order after it.
SeatsKeepOrder(before, after) ==
  \A i, j \in 1..Len(before) :
    i < j =>
      \A k, l \in 1..Len(after) :
        (after[k] = before[i] /\ after[l] = before[j]) => k < l

\* C22: in every state of a room turnOrder has no entry twice, its entries
\* are the keys of players, and the seats never change their order,
\* whatever createRoom, joinRoom, leaveRoom, disconnect and reconnect
\* events there have been.
C22_TurnOrder ==
  /\ [](exists =>
          /\ \A i, j \in 1..Len(turnOrder) : i # j => turnOrder[i] # turnOrder[j]
          /\ Entries(turnOrder) = KeysOf(G))
  /\ [][(exists /\ exists') => SeatsKeepOrder(turnOrder, turnOrder')]_vars

\* How often x is an entry of seq.
Count(seq, x) == Cardinality({i \in 1..Len(seq) : seq[i] = x})

\* The cards of after are those of before with one card out replaced by one
\* card in.
Exchanged(before, after, out, in) ==
  /\ Len(after) = Len(before)
  /\ Count(before, out) >= 1
  /\ \A x \in 0..NumCards :
       Count(after, x) = Count(before, x) - (IF x = out THEN 1 ELSE 0)
                                          + (IF x = in THEN 1 ELSE 0)

\* Room h is room g after player p has swapped a card of the hand with a
\* wild card of meld k, as stated.
SwapAsStated(g, h, p) ==
  /\ hasMeld(g, p)
  /\ HasPlayer(g, p) /\ HasPlayer(h, p)
  /\ Len(h.melds) = Len(g.melds)
  /\ \E k \in 1..Len(g.melds) :
       \E c \in Entries(PlayerOf(g, p).hand), w \in Entries(g.melds[k].cards) :
         /\ c # Undef /\ orderOf(w) = WildOrder
         /\ Exchanged(g.melds[k].cards, h.melds[k].cards, w, c)
         /\ Exchanged(PlayerOf(g, p).hand, PlayerOf(h, p).hand, c, w)
         /\ isSet(h.melds[k].cards) \/ isRun(h.melds[k].cards)
         /\ \A i \in 1..Len(g.melds) : i # k => h.melds[i] = g.melds[i]

\* C23: swapWithMeld succeeds only if the player owns a meld of the round
\* and the meld with one wild card replaced by the player's card is valid;
\* a swap that succeeds is an exact exchange: the player's card goes from
\* the hand into the meld, the wild card from the meld into the hand, and
\* the hand and the meld keep their sizes.
C23_SwapExact ==
  [][(last'.op = "swapWithMeld" /\ last'.ret = "true")
     => SwapAsStated(G, G', last'.user)]_vars

\* C24: players cannot swap with their own meld: no swapWithMeld message of
\* a player changes the cards of a meld that player owns.
C24_NoSwapWithOwnMeld ==
  [][(last'.op = "swapWithMeld" /\ ~crashed' /\ Len(melds') = Len(melds))
     => \A i \in 1..Len(melds) :
          melds[i].playerID = last'.user => melds'[i].cards = melds[i].cards]_vars

\* C25: an addToMeld that is rejected (returns false) leaves the room as it
\* was, the meld's cards and the player's hand above all; so it is when the
\* card fits the meld and is the last card of the hand.
C25_RejectedAddNoChange ==
  [][(last'.op = "addToMeld" /\ last'.ret = "false")
     => (melds' = melds /\ players' = players /\ G' = G)]_vars

\* C26: a player who owns no meld of the round cannot lay a card on a meld:
\* the addToMeld of such a player is rejected and the room is as it was.
C26_AddNeedsOwnMeld ==
  [][(last'.op = "addToMeld" /\ ~hasMeld(G, last'.user) /\ ~crashed')
     => (last'.ret = "false" /\ G' = G)]_vars

\* Sequence b holds the entries of sequence a, each as often as a does.
PermutationOf(a, b) ==
  /\ Len(a) = Len(b)
  /\ \A x \in Entries(a) \cup Entries(b) : Count(a, x) = Count(b, x)

\* C27 as stated: reDeck moves all but the top discard back into the draw
\* pile; afterwards the discard pile holds the card that was its top and
\* the draw pile is a permutation of the former draw pile and the other
\* former discards.
C27_ReDeckKeepsTop ==
  [][(verdict'.op = "reDeck" /\ discarded # << >>)
     => /\ discarded' = << discarded[Len(discarded)] >>
        /\ PermutationOf(deck', deck \o SubSeq(discarded, 1, Len(discarded) - 1))]_vars

\* C27 as the code has it: reDeck moves every discard, the top one too, back
\* into the draw pile; afterwards the discard pile is empty and the draw
\* pile is a permutation of the former draw pile and all former discards.
C27_ReDeckMovesAll ==
  [][(verdict'.op = "reDeck")
     => /\ discarded' = << >>
        /\ PermutationOf(deck', deck \o discarded)]_vars

\* reDeck has been called on a discard pile that held cards, with cards
\* still drawn and not discarded.
C27_Witness ==
  /\ verdict.op = "reDeck" /\ verdict.ret
  /\ discarded = << >> /\ probe # << >>
  /\ Len(deck) + Len(probe) = NumCards

\* C28: in a turn only one of the player's discard and the auto-discard is
\* carried out.  When the discardCard message of the player at turn is
\* handled first the pending timeout is cancelled: no auto-discard is left
\* to run in that turn or in the next player's.  When the auto-discard has
\* run first, a discardCard message the same player sends after it changes
\* nothing.
C28_OneDiscardPerTurn ==
  /\ []((last.op = "discardCard" /\ last.ret = "true" /\ ~crashed)
          => discardTimeouts = 0)
  /\ [][(/\ last.op = "handleDiscardCard" /\ last.ret = "true"
         /\ last'.op = "discardCard" /\ last'.user = discarder)
        => G' = G]_vars

\* The turn's window is open for player p: p is at turn and the timeout
\* that updateAfterBuy has set for the turn is pending.
WindowOpen(p) ==
  /\ exists /\ ~crashed /\ hasDeck
  /\ TurnPlayer(G) = p /\ HasPlayer(G, p)
  /\ timeout /\ discardTimeouts > 0

\* C29: once the window of the turn is open for player p, the turn goes
\* past p: if p sends no discard the auto-discard is carried out for p,
\* whatever the other players send meanwhile, discardCard messages of
\* players not at turn among it.  Only a pending timeout runs the
\* auto-discard, so for as long as p is at turn and has sent no discard, a
\* turn timeout has to be pending after every step that is not the
\* auto-discard itself.
C29_TurnLiveness ==
  [][\A p \in Users :
       (/\ WindowOpen(p)
        /\ last'.op # "handleDiscardCard"
        /\ ~(last'.op = "discardCard" /\ last'.user = p)
        /\ exists' /\ ~crashed' /\ HasPlayer(G', p) /\ TurnPlayer(G') = p)
       => discardTimeouts' > 0]_vars

\* C30: the buy window is opened once for every discard, whatever
\* buyProcess and buyCard messages the clients send and in whatever order:
\* handleCardBuyProcess runs once before the next discard and buys at most
\* one card, and the buyers of one discard are never resolved against a
\* later top of the discard pile.  So no two runs of it are ever pending,
\* and when a discard succeeds the window of the discard before it is
\* closed: no run is pending and no buyer is waiting.
C30_OneBuyWindow ==
  /\ [](buyTimeouts <= 1)
  /\ [][(last'.op \in {"discardCard", "handleDiscardCard"} /\ last'.ret = "true"
         /\ ~crashed')
        => (buyTimeouts' = 0 /\ buyers' = << >>)]_vars


\* The messages that lay cards on the table.
MeldOps == {"newMeld", "swapWithMeld", "addToMeld"}

\* The cards of room g have just been dealt: every hand has its 11 cards,
\* one card is on the discard pile, the draw pile has all the others and no
\* meld is on the table.  A draw or a buy takes a card off the draw pile and
\* nothing but a deal puts one back, so no player of such a room has drawn.
JustDealt(g) ==
  /\ g.exists /\ g.hasDeck
  /\ Len(g.players) >= 1
  /\ \A j \in 1..Len(g.players) : Len(g.players[j].hand) = HandSize
  /\ Len(g.discarded) = 1
  /\ Len(g.deck) = NumCards - HandSize * Len(g.players) - 1
  /\ g.melds = << >>

\* C31: a meld, swapWithMeld or addToMeld of a player is accepted only
\* after that player has drawn and before that player discards: none is
\* accepted for a player whose turn it is not, and none in a room whose
\* cards have just been dealt, where no player has drawn yet.
C31_MeldOnlyAfterDraw ==
  [][(exists /\ last'.op \in MeldOps /\ last'.ret = "true")
     => (last'.user = TurnPlayer(G) /\ ~JustDealt(G))]_vars


\* The step is a drawCard message that has moved a card from the draw pile
\* into a hand.
DrawsCard ==
  /\ exists /\ exists' /\ ~crashed'
  /\ last'.op = "drawCard"
  /\ Len(deck') < Len(deck)

\* The message handled before this one was a drawCard of the same user that
\* was served: no discard lies between the two, so both are of one turn.
DrewBefore ==
  /\ last.op = "drawCard" /\ last.user = last'.user /\ last.ret = "undefined"

\* C32: a drawCard message moves a card from the draw pile into a hand only
\* when the requesting user is turnOrder[turn], and at most once per turn;
\* the only other way a card leaves the draw pile for a hand during a round
\* is the extra draw of a buy.
C32_DrawOnlyAtTurn ==
  /\ [][DrawsCard => (last'.user = TurnPlayer(G) /\ ~DrewBefore)]_vars
  /\ [][(exists /\ exists' /\ ~crashed' /\ ~Deals /\ Len(deck') < Len(deck))
        => last'.op \in {"drawCard", "handleCardBuyProcess"}]_vars


\* No meld on the table of room g holds a wild card: whatever meld id a
\* swapWithMeld message names, it is of a meld without a wild card or of no
\* meld at all.
NoWildOnTable(g) ==
  \A i \in 1..Len(g.melds) : FindWild(g.melds[i].cards) = Undef

\* C33: a swapWithMeld of a player who has melded, aimed at a meld that
\* holds no wild card or at a meld id that does not exist, is rejected
\* without harm: it returns false, raises no error and leaves the hands and
\* the melds as they were.
C33_SwapRejectedQuietly ==
  [][(/\ exists /\ ~crashed
      /\ last'.op = "swapWithMeld"
      /\ hasMeld(G, last'.user)
      /\ NoWildOnTable(G))
     => (last'.ret = "false" /\ ~crashed' /\ melds' = melds /\ players' = players)]_vars

====
